---- MODULE Spec2Model ----
(***************************************************************************)
(* A model of app.py: a Flask application with one SQLAlchemy table,       *)
(* `student`, a list view (GET /) and an add view (POST /student).         *)
(*                                                                         *)
(* State: the students.db file (does the table exist, its rows in rowid    *)
(* order), Flask's first-request flag, the console output of the last      *)
(* request, the last response sent to the browser, and the history of      *)
(* requests received (a history variable the properties are stated over). *)
(***************************************************************************)
EXTENDS Integers, Sequences, FiniteSets, TLC

VARIABLES got_first_request, tables, rows, stdout, response, requests

vars == <<got_first_request, tables, rows, stdout, response, requests>>

\* ------------------------------------------------------------------ bounds

\* How many requests a behaviour holds.
MaxRequests == 4

\* ------------------------------------------------------------------ inputs

\* The values the `student` form field takes: the empty string and two texts.
Names == {"", "Alice", "Bob"}

\* Python's None / SQL NULL: a value that is no submitted string.
None == "<None>"

\* A form without the `student` field.
EmptyForm == [k \in {} |-> ""]

\* The form of a request: the field missing, or present with a string.
Forms == {EmptyForm} \cup {[student |-> n] : n \in Names}

GET == [method |-> "GET", form |-> EmptyForm]

POST(form) == [method |-> "POST", form |-> form]

\* --------------------------------------------------------------- responses

NoResponse == [status |-> 0, location |-> "", body |-> <<>>]

\* render_template('index.html', students=students): the page lists the name
\* of each student it is given, in the order given.
render_template(students) ==
    [status |-> 200, location |-> "",
     body |-> [i \in 1..Len(students) |-> students[i].name]]

\* url_for('homepage'): the rule the homepage view is routed at.
url_for_homepage == "/"

redirect(location) == [status |-> 302, location |-> location, body |-> <<>>]

\* What Flask answers when a view raises: 400 for a BadRequest (an
\* HTTPException), 500 for any other exception.
error_response(status) == [status |-> status, location |-> "", body |-> <<>>]

\* ----------------------------------------------------------------- storage

\* The largest id of a sequence of rows, 0 when there is none.
RECURSIVE MaxId(_)
MaxId(rws) ==
    IF rws = <<>> THEN 0
    ELSE LET m == MaxId(Tail(rws)) IN IF Head(rws).id > m THEN Head(rws).id ELSE m

\* A mutation: the id of the newest row is handed out again.
next_id_reuse(rws) == IF rws = <<>> THEN 1 ELSE MaxId(rws)

\* id = db.Column(db.Integer, primary_key=True): an integer primary key is
\* the table's rowid, assigned as one more than the largest rowid in use.
next_id(rws) == MaxId(rws) + 1

\* Student(name=name): a record not yet in the table (no id yet).
Student(name) == [name |-> name]

\* db.session.add(student)
session_add(session, student) == Append(session, student)

\* A mutation: no table is created.
create_all_skipped(tbl, rws) == [tables |-> tbl, rows |-> rws]

\* A mutation: the table is dropped and created again, empty.
create_all_recreate(tbl, rws) == [tables |-> TRUE, rows |-> <<>>]

\* db.create_all(): creates the tables that do not exist yet and leaves an
\* existing table and its rows alone.
create_all(tbl, rws) == [tables |-> TRUE, rows |-> IF tbl THEN rws ELSE <<>>]

\* setup(), the before_first_request hook.
setup(tbl, rws) == create_all(tbl, rws)

\* The INSERT of the pending records, one row each, in the order added.
RECURSIVE insert_all(_, _)
insert_all(session, rws) ==
    IF session = <<>> THEN rws
    ELSE insert_all(Tail(session),
                    Append(rws, [id |-> next_id(rws), name |-> Head(session).name]))

\* A mutation: a record whose name is already stored is not inserted.
session_commit_ignore_duplicate(session, tbl, rws) ==
    IF ~tbl THEN [raised |-> TRUE, rows |-> rws]
    ELSE IF \E i \in 1..Len(session) : session[i].name = None
    THEN [raised |-> TRUE, rows |-> rws]
    ELSE [raised |-> FALSE,
          rows |-> insert_all(
              SelectSeq(session,
                        LAMBDA s : \A j \in 1..Len(rws) : rws[j].name # s.name),
              rws)]

\* A mutation: a record replaces the stored rows of the same name.
session_commit_replace(session, tbl, rws) ==
    IF ~tbl THEN [raised |-> TRUE, rows |-> rws]
    ELSE IF \E i \in 1..Len(session) : session[i].name = None
    THEN [raised |-> TRUE, rows |-> rws]
    ELSE [raised |-> FALSE,
          rows |-> insert_all(
              session,
              SelectSeq(rws,
                        LAMBDA r : \A i \in 1..Len(session) : session[i].name # r.name))]

\* db.session.commit(): raises when the table does not exist
\* (OperationalError) or a pending record has no name (IntegrityError,
\* nullable=False), and then writes nothing; otherwise inserts the pending
\* records.
session_commit(session, tbl, rws) ==
    IF ~tbl THEN [raised |-> TRUE, rows |-> rws]
    ELSE IF \E i \in 1..Len(session) : session[i].name = None
    THEN [raised |-> TRUE, rows |-> rws]
    ELSE [raised |-> FALSE, rows |-> insert_all(session, rws)]

\* A mutation: only the first row is fetched.
query_all_first(tbl, rws) ==
    IF ~tbl THEN [raised |-> TRUE, students |-> <<>>]
    ELSE [raised |-> FALSE, students |-> SubSeq(rws, 1, IF rws = <<>> THEN 0 ELSE 1)]

\* Student.query.all(): every row of the table, in rowid order; raises
\* (OperationalError) when the table does not exist.
query_all(tbl, rws) ==
    IF ~tbl THEN [raised |-> TRUE, students |-> <<>>]
    ELSE [raised |-> FALSE, students |-> rws]

\* ------------------------------------------------------------------- views

\* A mutation: a missing field reads as the empty string.
form_getitem_default(form, key) ==
    IF key \in DOMAIN form
    THEN [raised |-> FALSE, value |-> form[key]]
    ELSE [raised |-> FALSE, value |-> ""]

\* request.form['student']: the field's value; raises (BadRequestKeyError)
\* when the form has no such field.
form_getitem(form, key) ==
    IF key \in DOMAIN form
    THEN [raised |-> FALSE, value |-> form[key]]
    ELSE [raised |-> TRUE, value |-> None]

\* A mutation: the record is added to the session and never committed, so
\* the end of the request discards it.
try_insert_no_commit(form, tbl, rws) ==
    LET item == form_getitem(form, "student") IN
    IF item.raised THEN [raised |-> TRUE, rows |-> rws]
    ELSE [raised |-> FALSE, rows |-> rws]

\* A mutation: a missing field is read as the empty string
\* (request.form.get('student', '')) and inserted.
try_insert_placeholder(form, tbl, rws) ==
    LET name == IF "student" \in DOMAIN form THEN form["student"] ELSE ""
        session == session_add(<<>>, Student(name))
    IN  session_commit(session, tbl, rws)

\* The body of add_student's try block: the first statement that raises ends
\* it. The session is new in every request (Flask-SQLAlchemy removes it at
\* the end of each request), so it starts empty.
try_insert(form, tbl, rws) ==
    LET item == form_getitem(form, "student") IN
    IF item.raised THEN [raised |-> TRUE, rows |-> rws]
    ELSE LET student == Student(item.value)
             session == session_add(<<>>, student)
         IN  session_commit(session, tbl, rws)

\* What a request printed: nothing, the list of students, or the exception.
NothingPrinted == [line |-> "", ids |-> <<>>]

StudentsLine(students) ==
    [line |-> "students", ids |-> [i \in 1..Len(students) |-> students[i].id]]

ExceptionLine == [line |-> "Exception when adding student", ids |-> <<>>]

\* A mutation: the exception is not caught, and Flask answers with an error.
add_student_view_uncaught(form, tbl, rws) ==
    LET t == try_insert(form, tbl, rws) IN
    [rows |-> t.rows,
     stdout |-> NothingPrinted,
     response |-> IF t.raised THEN error_response(400)
                  ELSE redirect(url_for_homepage)]

\* add_student(): the try block, the except clause that prints the exception,
\* and the redirect that follows both.
add_student_view(form, tbl, rws) ==
    LET t == try_insert(form, tbl, rws) IN
    [rows |-> t.rows,
     stdout |-> IF t.raised THEN ExceptionLine ELSE NothingPrinted,
     response |-> redirect(url_for_homepage)]

\* homepage(): fetch all students, print them, render the page. A raise in
\* the query is not caught by the view: Flask answers 500.
homepage_view(tbl, rws) ==
    LET q == query_all(tbl, rws) IN
    IF q.raised THEN [stdout |-> NothingPrinted, response |-> error_response(500)]
    ELSE [stdout |-> StudentsLine(q.students),
          response |-> render_template(q.students)]

\* The storage a request's view sees: before the first request of a process,
\* Flask runs the before_first_request hooks.
before_request(got, tbl, rws) ==
    IF got THEN [tables |-> tbl, rows |-> rws] ELSE setup(tbl, rws)

\* ------------------------------------------------------------- the machine

\* A new process on a file system without students.db: no request yet.
Init ==
    /\ got_first_request = FALSE
    /\ tables = FALSE
    /\ rows = <<>>
    /\ stdout = NothingPrinted
    /\ response = NoResponse
    /\ requests = <<>>

\* GET /
homepage ==
    /\ Len(requests) < MaxRequests
    /\ LET db == before_request(got_first_request, tables, rows)
           v == homepage_view(db.tables, db.rows)
       IN  /\ got_first_request' = TRUE
           /\ tables' = db.tables
           /\ rows' = db.rows
           /\ stdout' = v.stdout
           /\ response' = v.response
           /\ requests' = Append(requests, GET)

\* POST /student
add_student ==
    /\ Len(requests) < MaxRequests
    /\ \E form \in Forms :
        LET db == before_request(got_first_request, tables, rows)
            v == add_student_view(form, db.tables, db.rows)
        IN  /\ got_first_request' = TRUE
            /\ tables' = db.tables
            /\ rows' = v.rows
            /\ stdout' = v.stdout
            /\ response' = v.response
            /\ requests' = Append(requests, POST(form))

\* app.run(): the process is started again on the same students.db.
run ==
    /\ got_first_request = TRUE
    /\ got_first_request' = FALSE
    /\ UNCHANGED <<tables, rows, stdout, response, requests>>

Next == homepage \/ add_student \/ run

Spec == Init /\ [][Next]_vars

\* -------------------------------------------------------------- properties

Last(seq) == seq[Len(seq)]

Range(seq) == {seq[i] : i \in 1..Len(seq)}

\* Is request r a POST whose form holds the `student` field?
HasName(r) == r.method = "POST" /\ "student" \in DOMAIN r.form

\* The names submitted by the POSTs of a request history, in order.
RECURSIVE SubmittedNames(_)
SubmittedNames(reqs) ==
    IF reqs = <<>> THEN <<>>
    ELSE IF HasName(Head(reqs))
    THEN <<Head(reqs).form["student"]>> \o SubmittedNames(Tail(reqs))
    ELSE SubmittedNames(Tail(reqs))

\* This step handles a request of the given method.
Handles(method) ==
    /\ Len(requests') = Len(requests) + 1
    /\ Last(requests').method = method

\* C1: when the last response is the page of a GET /, it lists every
\* non-empty name that a POST /student submitted before it, the earlier ones
\* and the later ones alike.
C1_SubmittedNamesListed ==
    response.status = 200 =>
        \A i \in 1..Len(requests) :
            (HasName(requests[i]) /\ requests[i].form["student"] # "")
                => requests[i].form["student"] \in Range(response.body)

\* C1 witness: POST Alice, later POST Bob, then a GET whose page lists both.
C1_Witness ==
    /\ response.status = 200
    /\ \E i, j \in 1..Len(requests) :
        /\ i < j
        /\ HasName(requests[i]) /\ requests[i].form["student"] = "Alice"
        /\ HasName(requests[j]) /\ requests[j].form["student"] = "Bob"
    /\ {"Alice", "Bob"} \subseteq Range(response.body)

\* C2: the number of rows in storage is the number of POST /student requests
\* that carried a name, repeated names included.
C2_OneRowPerName == Len(rows) = Len(SubmittedNames(requests))

\* C2 witness: three names submitted, two of them the same, three rows.
C2_Witness ==
    /\ Len(rows) = 3
    /\ rows[1].name = rows[2].name
    /\ rows[1].name # rows[3].name

\* C3: the response to every POST /student is the redirect to `/`, whether
\* the insert succeeded or raised.
C3_PostRedirects ==
    (requests # <<>> /\ Last(requests).method = "POST")
        => response = redirect("/")

\* C3 witness: a POST without the field was answered by the redirect, the
\* exception printed.
C3_Witness ==
    /\ requests # <<>>
    /\ Last(requests).method = "POST"
    /\ ~HasName(Last(requests))
    /\ stdout = ExceptionLine
    /\ response.status = 302

\* C4: every GET / is answered 200, and on an empty database its page lists
\* no student.
C4_EmptyListRenders ==
    (requests # <<>> /\ Last(requests).method = "GET")
        => /\ response.status = 200
           /\ rows = <<>> => response.body = <<>>

\* C4 witness: the very first request of a new server on a new database is a
\* GET /, answered 200 with an empty list.
C4_Witness ==
    /\ requests = <<GET>>
    /\ tables
    /\ rows = <<>>
    /\ response.status = 200
    /\ response.body = <<>>

\* C5: every step keeps every stored row, with its id and its name.
C5_RowsNeverChange ==
    [][\A i \in 1..Len(rows) : \E j \in 1..Len(rows') : rows'[j] = rows[i]]_vars

\* C5 witness: two rows of the same name are stored, a GET / was handled and
\* the server has been started again.
C5_Witness ==
    /\ Len(rows) >= 2
    /\ rows[1].name = rows[2].name
    /\ \E i \in 1..Len(requests) : requests[i].method = "GET"
    /\ got_first_request = FALSE

\* C6: no two rows share an id, and a step that inserts rows gives each an id
\* greater than every id stored before the step.
C6_IdsUniqueAndIncreasing ==
    /\ [](\A i, j \in 1..Len(rows) : i # j => rows[i].id # rows[j].id)
    /\ [][\A j \in (Len(rows) + 1)..Len(rows') :
             \A i \in 1..Len(rows) : rows'[j].id > rows[i].id]_vars

\* C6 witness: three rows were inserted by three POSTs.
C6_Witness ==
    /\ Len(rows) = 3
    /\ rows[1].id < rows[2].id
    /\ rows[2].id < rows[3].id

\* C7 as stated: every stored name is neither null nor empty.
C7_NamesNonEmpty ==
    \A i \in 1..Len(rows) : rows[i].name # None /\ rows[i].name # ""

\* C7 as amended: every stored name is non-null, and a stored name is empty
\* only when a POST submitted the field as the empty string (a missing field
\* stores nothing).
C7_NamesNonNull ==
    /\ \A i \in 1..Len(rows) : rows[i].name # None
    /\ (\E i \in 1..Len(rows) : rows[i].name = "")
           => \E k \in 1..Len(requests) :
                  HasName(requests[k]) /\ requests[k].form["student"] = ""

\* C7 witness: after a POST without the field, a POST with the empty string
\* and a POST with a text, storage holds a row of empty name.
C7_Witness ==
    /\ \E k \in 1..Len(requests) :
           requests[k].method = "POST" /\ ~HasName(requests[k])
    /\ \E i \in 1..Len(rows) : rows[i].name = ""
    /\ \E i \in 1..Len(rows) : rows[i].name = "Alice"

\* This step handles a POST /student whose insert fails: the field is
\* missing, or the try block raised.
InsertFails ==
    /\ Handles("POST")
    /\ (~HasName(Last(requests')) \/ stdout' = ExceptionLine)

\* C8: a POST /student whose insert fails leaves the rows as they were, and
\* has no effect on later requests: the stored names are always the names of
\* the POSTs that carried one, in order, and nothing else.
C8_FailedInsertChangesNothing ==
    /\ [][InsertFails => rows' = rows]_vars
    /\ []([i \in 1..Len(rows) |-> rows[i].name] = SubmittedNames(requests))

\* C8 witness: a row, then a POST without the field, then a POST with a
\* name, then a GET / answered 200 with the two rows in storage.
C8_Witness ==
    /\ Len(requests) = 4
    /\ HasName(requests[1])
    /\ requests[2].method = "POST" /\ ~HasName(requests[2])
    /\ HasName(requests[3])
    /\ requests[4].method = "GET"
    /\ response.status = 200
    /\ Len(rows) = 2

\* C9: the page of a GET / lists the name of each stored row, once per row,
\* in storage order, and nothing else.
C9_PageListsAllRows ==
    response.status = 200 =>
        response.body = [i \in 1..Len(rows) |-> rows[i].name]

\* C9 witness: a name stored twice is listed twice.
C9_Witness ==
    /\ response.status = 200
    /\ Len(response.body) = 3
    /\ response.body[1] = response.body[3]
    /\ response.body[1] # response.body[2]

\* C10: a step that handles a GET / leaves the rows as they were.
C10_GetReadOnly == [][Handles("GET") => rows' = rows]_vars

\* C10 witness: rows are stored and two GETs in a row were handled, the last
\* one listing as many names as there are rows.
C10_Witness ==
    /\ Len(requests) >= 3
    /\ requests[Len(requests) - 1].method = "GET"
    /\ Last(requests).method = "GET"
    /\ rows # <<>>
    /\ Len(response.body) = Len(rows)
    /\ got_first_request = TRUE

====
